---- MODULE Spec2Model ----
(***************************************************************************)
(* Model of binding.cc: one worker (a V8 isolate) multiplexing several     *)
(* contexts, the host entry points worker_load / worker_send /             *)
(* worker_sendSync / context_new / context_dispose / worker_terminate and  *)
(* the intrinsics $recv / $recvSync / $send / $sendSync installed in every *)
(* context's global object.                                                *)
(*                                                                         *)
(* Host threads call the entry points; guest code is any sequence of       *)
(* guest statements, chosen one step at a time.  A call stack per thread   *)
(* records the strict call/return nesting.  A behaviour has at most MaxOps *)
(* host calls and guest statements in total.                               *)
(***************************************************************************)
EXTENDS Integers, Sequences, FiniteSets, TLC

\* ------------------------------------------------------------------ bounds
MaxOps == 6

\* ------------------------------------------------------------ value spaces
Threads == {1, 2}
NoThread == 0
NULL == 0
NoFn == "-"
GuestFns == {"f", "g"}
Msgs == {"ping"}
Replies == {"pong"}
Names == {"a.js"}
Sources == {"ok", "bad"}
\* the callbacks and the data pointer the host passes for its idx-th context
HostBinding(idx) ==
  [cb |-> "cb" \o ToString(idx), req_cb |-> "req" \o ToString(idx),
   data |-> "data" \o ToString(idx)]
\* values the guest stores in its global $context
CtxValues == 0..2
Garbage == "<freed memory>"
ErrMarker == "err: "
ErrTails == {"$recvSync not called", "non-string return value"}
\* values a guest function can return: strings, or the non-string NonString
NonString == "<non-string>"
GuestResults == {"ABC", NonString}

VARIABLES
  contextIndex,    \* worker_s::contextIndex
  contexts,        \* worker_s::contexts, key -> pointer (NULL or heap index)
  last_exception,  \* worker_s::last_exception
  heap,            \* every context_s ever allocated, in allocation order
  global,          \* global[p]: $context in the global object of heap[p]
  lockOwner,       \* thread holding the isolate's Locker, or NoThread
  lockDepth,       \* nesting depth of that thread's Lockers
  terminating,     \* a TerminateExecution request is pending
  stack,           \* stack[t]: call stack of host thread t
  retval,          \* what the most recent returned entry point returned
  crashed,         \* the process died of an invalid memory access
  nops             \* host calls and guest statements executed so far

vars == <<contextIndex, contexts, last_exception, heap, global, lockOwner,
          lockDepth, terminating, stack, retval, crashed, nops>>

\* ----------------------------------------------------------------- helpers
Top(s) == s[Len(s)]
Front(s) == SubSeq(s, 1, Len(s) - 1)
Ptrs == 1..Len(heap)

ApiKinds == {"load", "send", "sendSync"}
CbKinds == {"cb", "req_cb"}

\* the thread is executing host code: outside every call, or inside a host
\* callback invoked by $send / $sendSync
HostCode(t) ==
  IF stack[t] = <<>> THEN TRUE ELSE Top(stack[t]).kind \in CbKinds

\* the thread is executing guest code of an entry point's frame
InGuest(t) ==
  IF stack[t] = <<>> THEN FALSE
  ELSE Top(stack[t]).kind \in ApiKinds /\ Top(stack[t]).pc = "guest"

InUse(p) == \E t \in Threads : \E i \in 1..Len(stack[t]) : stack[t][i].c = p

\* reply is the value the last $sendSync call of the frame's guest code
\* returned to it
Frame(k, p, pcv, f, a, nm, d, cl) ==
  [kind |-> k, c |-> p, pc |-> pcv, fn |-> f, arg |-> a, name |-> nm,
   data |-> d, calls |-> cl, reply |-> ""]

Push(t, fr) == stack' = [stack EXCEPT ![t] = Append(@, fr)]
Pop(t) == stack' = [stack EXCEPT ![t] = Front(@)]
SetTop(t, fr) == stack' = [stack EXCEPT ![t] = [@ EXCEPT ![Len(@)] = fr]]

\* the host makes one more call, while the budget lasts
HostCall == nops < MaxOps /\ nops' = nops + 1

\* mutant: a lock that its holder cannot take again
CanLock_NotReentrant(t) == lockOwner = NoThread

\* v8::Locker: reentrant for the thread that holds it
CanLock(t) == lockOwner \in {NoThread, t}
LockerEnter(t) == /\ lockOwner' = t
                  /\ lockDepth' = lockDepth + 1
LockerExit == /\ lockDepth' = lockDepth - 1
              /\ lockOwner' = IF lockDepth = 1 THEN NoThread ELSE lockOwner

\* --------------------------------------------------------------- Init
Init ==
  /\ contextIndex = 0
  /\ contexts = [k \in {} |-> NULL]
  /\ last_exception = ""
  /\ heap = <<>>
  /\ global = <<>>
  /\ lockOwner = NoThread
  /\ lockDepth = 0
  /\ terminating = FALSE
  /\ stack = [t \in Threads |-> <<>>]
  /\ retval = [op |-> "none", status |-> 0, result |-> "", ended |-> "-"]
  /\ crashed = FALSE
  /\ nops = 0

\* ------------------------------------------------------ ExceptionString
RECURSIVE Repeat(_, _)
Repeat(ch, n) == IF n <= 0 THEN "" ELSE ch \o Repeat(ch, n - 1)

\* the diagnostic of a caught exception e: e.hasMessage says whether the
\* engine supplied a Message (position data) for it
ExceptionString(e) ==
  IF ~e.hasMessage
    THEN e.text \o "\n"
    ELSE e.name \o ":" \o ToString(e.line) \o "\n"
         \o e.srcline \o "\n"
         \o Repeat(" ", e.start) \o Repeat("^", e.end - e.start) \o "\n"
         \o (IF e.stack # "" THEN e.stack ELSE e.text) \o "\n"

Exc(txt, has, nm, ln, sl, st, en, stk) ==
  [text |-> txt, hasMessage |-> has, name |-> nm, line |-> ln, srcline |-> sl,
   start |-> st, end |-> en, stack |-> stk]

\* Script::Compile: whether the source text compiles, and the exception the
\* engine reports when it does not (attributed to the supplied resource name)
Compiles(src) == src # "bad"
CompileError(nm, src) ==
  Exc("SyntaxError: Unexpected token )", TRUE, nm, 1, "var x = );", 8, 9, "")

\* exceptions guest code can throw
GuestExceptions ==
  { Exc("boom", FALSE, "", 0, "", 0, 0, ""),
    Exc("Error: x", TRUE, "a.js", 2, "throw new Error('x')", 0, 5,
        "Error: x\n    at a.js:2:1") }

\* what a TryCatch holds after TerminateExecution aborted the run: the null
\* value as exception and no Message
TerminationException == Exc("null", FALSE, "", 0, "", 0, 0, "")

\* ----------------------------------------------------------- context_new
NewContext(idx, hb) ==
  [id |-> idx, data |-> hb.data, cb |-> hb.cb, req_cb |-> hb.req_cb,
   context |-> TRUE, recv |-> NoFn, recv_sync_handler |-> NoFn,
   freed |-> FALSE]

\* std::map::insert: no effect when the key is already present
MapInsert(m, k, v) ==
  IF k \in DOMAIN m THEN m
  ELSE [x \in DOMAIN m \cup {k} |-> IF x = k THEN v ELSE m[x]]

\* mutant: the counter is not advanced
NextContextIndex_Stuck(i) == i

NextContextIndex(i) == i + 1

ContextNew(t) ==
  /\ ~crashed
  /\ HostCode(t)
  /\ HostCall
  /\ CanLock(t)
  /\ heap' = Append(heap, NewContext(contextIndex, HostBinding(contextIndex)))
  /\ global' = Append(global, contextIndex)
  /\ contexts' = MapInsert(contexts, contextIndex, Len(heap) + 1)
  /\ contextIndex' = NextContextIndex(contextIndex)
  /\ UNCHANGED <<last_exception, lockOwner, lockDepth, terminating, stack,
                 retval, crashed>>

\* ------------------------------------------------------- context_dispose
\* The host disposes a context it is not using in any call.
DisposeBegin(t, p) ==
  /\ ~crashed
  /\ HostCode(t)
  /\ HostCall
  /\ p \in Ptrs
  /\ heap[p].context
  /\ ~InUse(p)
  /\ heap' = [heap EXCEPT ![p].context = FALSE]
  /\ Push(t, Frame("dispose", p, "delete", NoFn, "", "", "", 0))
  /\ UNCHANGED <<contextIndex, contexts, last_exception, global, lockOwner,
                 lockDepth, terminating, retval, crashed>>

DisposeEnd(t) ==
  /\ ~crashed
  /\ UNCHANGED nops
  /\ stack[t] # <<>>
  /\ Top(stack[t]).kind = "dispose"
  /\ heap' = [heap EXCEPT ![Top(stack[t]).c].freed = TRUE]
  /\ Pop(t)
  /\ UNCHANGED <<contextIndex, contexts, last_exception, global, lockOwner,
                 lockDepth, terminating, retval, crashed>>

\* ------------------------------------------------------ worker_terminate
Terminate(t) ==
  /\ ~crashed
  /\ HostCode(t)
  /\ HostCall
  /\ terminating' = TRUE
  /\ retval' = [op |-> "terminate", status |-> 0, result |-> "", ended |-> "-"]
  /\ UNCHANGED <<contextIndex, contexts, last_exception, heap, global,
                 lockOwner, lockDepth, stack, crashed>>

\* ------------------------------------------- entry points: common pieces
\* the host passes only contexts it has not handed to context_dispose
Usable(p) == p \in Ptrs /\ heap[p].context /\ ~heap[p].freed

\* the entry point returns: its Locker goes out of scope
\* ended says how the guest code it ran ended: "-" when it ran none
ApiReturn(t, opname, st, res, ended) ==
  /\ Pop(t)
  /\ LockerExit
  /\ retval' = [op |-> opname, status |-> st, result |-> res,
                ended |-> ended]

\* no JavaScript frame of thread t lies below its innermost entry point
BottomCall(t) ==
  \A i \in 1..(Len(stack[t]) - 1) : stack[t][i].kind \notin ApiKinds

\* ----------------------------------------------------------- worker_load
LoadBegin(t, p, nm, src) ==
  /\ ~crashed
  /\ HostCode(t)
  /\ HostCall
  /\ CanLock(t)
  /\ Usable(p)
  /\ LockerEnter(t)
  /\ Push(t, Frame("load", p, "entry", NoFn, src, nm, "", 0))
  /\ UNCHANGED <<contextIndex, contexts, last_exception, heap, global,
                 terminating, retval, crashed>>

\* mutant: a compile failure is reported without recording its diagnostic
LoadCompile_NoDiagnostic(t) ==
  /\ ~crashed
  /\ UNCHANGED nops
  /\ stack[t] # <<>>
  /\ LET fr == Top(stack[t]) IN
       /\ fr.kind = "load"
       /\ fr.pc = "entry"
       /\ IF ~Compiles(fr.arg)
            THEN /\ UNCHANGED last_exception
                 /\ ApiReturn(t, "load", 1, "", "-")
            ELSE /\ SetTop(t, [fr EXCEPT !.pc = "guest"])
                 /\ UNCHANGED <<last_exception, lockOwner, lockDepth, retval>>
  /\ UNCHANGED <<contextIndex, contexts, heap, global, terminating, crashed>>

\* Script::Compile and the test of its result
LoadCompile(t) ==
  /\ ~crashed
  /\ UNCHANGED nops
  /\ stack[t] # <<>>
  /\ LET fr == Top(stack[t]) IN
       /\ fr.kind = "load"
       /\ fr.pc = "entry"
       /\ IF ~Compiles(fr.arg)
            THEN /\ last_exception' =
                      ExceptionString(CompileError(fr.name, fr.arg))
                 /\ ApiReturn(t, "load", 1, "", "-")
            ELSE /\ SetTop(t, [fr EXCEPT !.pc = "guest"])
                 /\ UNCHANGED <<last_exception, lockOwner, lockDepth, retval>>
  /\ UNCHANGED <<contextIndex, contexts, heap, global, terminating, crashed>>

\* mutant: a failed run is reported without recording its diagnostic
LoadEpilogue_NoDiagnostic(t, outcome, e) ==
  /\ UNCHANGED <<last_exception, crashed>>
  /\ ApiReturn(t, "load", IF outcome = "throw" THEN 2 ELSE 0, "", outcome)

\* mutant: a terminated run is not treated as a failure
LoadEpilogue_TerminationIsSuccess(t, outcome, e) ==
  /\ IF outcome = "throw" /\ e # TerminationException
       THEN /\ last_exception' = ExceptionString(e)
            /\ ApiReturn(t, "load", 2, "", outcome)
       ELSE /\ UNCHANGED last_exception
            /\ ApiReturn(t, "load", 0, "", outcome)
  /\ UNCHANGED crashed

\* script->Run() has returned: outcome "ok" (a value) or "throw" (an empty
\* handle, the TryCatch holding exception e)
LoadEpilogue(t, outcome, e) ==
  /\ IF outcome = "throw"
       THEN /\ last_exception' = ExceptionString(e)
            /\ ApiReturn(t, "load", 2, "", outcome)
       ELSE /\ UNCHANGED last_exception
            /\ ApiReturn(t, "load", 0, "", outcome)
  /\ UNCHANGED crashed

\* ----------------------------------------------------------- worker_send
SendBegin(t, p, msg) ==
  /\ ~crashed
  /\ HostCode(t)
  /\ HostCall
  /\ CanLock(t)
  /\ Usable(p)
  /\ LockerEnter(t)
  /\ Push(t, Frame("send", p, "entry", NoFn, msg, "", "", 0))
  /\ UNCHANGED <<contextIndex, contexts, last_exception, heap, global,
                 terminating, retval, crashed>>

\* mutant: the handler is called without the test for an unset slot
SendDispatch_NoCheck(t) ==
  /\ ~crashed
  /\ UNCHANGED nops
  /\ stack[t] # <<>>
  /\ LET fr == Top(stack[t]) IN
       /\ fr.kind = "send"
       /\ fr.pc = "entry"
       /\ SetTop(t, [fr EXCEPT !.pc = "guest", !.fn = heap[fr.c].recv,
                               !.calls = fr.calls + 1])
  /\ UNCHANGED <<contextIndex, contexts, last_exception, heap, global,
                 lockOwner, lockDepth, terminating, retval, crashed>>

\* the test of c->recv, and recv->Call(global, 1, {msg})
SendDispatch(t) ==
  /\ ~crashed
  /\ UNCHANGED nops
  /\ stack[t] # <<>>
  /\ LET fr == Top(stack[t]) IN
       /\ fr.kind = "send"
       /\ fr.pc = "entry"
       /\ IF heap[fr.c].recv = NoFn
            THEN /\ last_exception' = "$recv not called"
                 /\ ApiReturn(t, "send", 1, "", "-")
            ELSE /\ SetTop(t, [fr EXCEPT !.pc = "guest",
                                         !.fn = heap[fr.c].recv,
                                         !.calls = fr.calls + 1])
                 /\ UNCHANGED <<last_exception, lockOwner, lockDepth, retval>>
  /\ UNCHANGED <<contextIndex, contexts, heap, global, terminating, crashed>>

\* mutant: the TryCatch is not consulted after the call
SendEpilogue_IgnoresThrow(t, outcome, e) ==
  /\ UNCHANGED <<last_exception, crashed>>
  /\ ApiReturn(t, "send", 0, "", outcome)

\* the handler has returned (its value is dropped) or thrown
SendEpilogue(t, outcome, e) ==
  /\ IF outcome = "throw"
       THEN /\ last_exception' = ExceptionString(e)
            /\ ApiReturn(t, "send", 2, "", outcome)
       ELSE /\ UNCHANGED last_exception
            /\ ApiReturn(t, "send", 0, "", outcome)
  /\ UNCHANGED crashed

\* ------------------------------------------------------- worker_sendSync
\* the returned pointer is out.c_str() of a local std::string, destroyed
\* at return: the host reads the text intact or whatever replaced it
DanglingRead(out) == {out, Garbage}

SendSyncBegin(t, p, msg) ==
  /\ ~crashed
  /\ HostCode(t)
  /\ HostCall
  /\ CanLock(t)
  /\ Usable(p)
  /\ LockerEnter(t)
  /\ Push(t, Frame("sendSync", p, "entry", NoFn, msg, "", "", 0))
  /\ UNCHANGED <<contextIndex, contexts, last_exception, heap, global,
                 terminating, retval, crashed>>

\* mutant: the unset sync handler is reported through last_exception as
\* well, the way worker_send reports an unset async handler
SendSyncDispatch_WritesDiagnostic(t) ==
  /\ ~crashed
  /\ UNCHANGED nops
  /\ stack[t] # <<>>
  /\ LET fr == Top(stack[t]) IN
       /\ fr.kind = "sendSync"
       /\ fr.pc = "entry"
       /\ IF heap[fr.c].recv_sync_handler = NoFn
            THEN /\ last_exception' = "$recvSync not called"
                 /\ \E r \in DanglingRead(ErrMarker
                                          \o "$recvSync not called") :
                      ApiReturn(t, "sendSync", 0, r, "-")
            ELSE /\ SetTop(t, [fr EXCEPT !.pc = "guest",
                                         !.fn = heap[fr.c].recv_sync_handler,
                                         !.calls = fr.calls + 1])
                 /\ UNCHANGED <<last_exception, lockOwner, lockDepth, retval>>
  /\ UNCHANGED <<contextIndex, contexts, heap, global, terminating, crashed>>

SendSyncDispatch(t) ==
  /\ ~crashed
  /\ UNCHANGED nops
  /\ stack[t] # <<>>
  /\ LET fr == Top(stack[t]) IN
       /\ fr.kind = "sendSync"
       /\ fr.pc = "entry"
       /\ IF heap[fr.c].recv_sync_handler = NoFn
            THEN \E r \in DanglingRead(ErrMarker \o "$recvSync not called") :
                   ApiReturn(t, "sendSync", 0, r, "-")
            ELSE /\ SetTop(t, [fr EXCEPT !.pc = "guest",
                                         !.fn = heap[fr.c].recv_sync_handler,
                                         !.calls = fr.calls + 1])
                 /\ UNCHANGED <<lockOwner, lockDepth, retval>>
  /\ UNCHANGED <<contextIndex, contexts, last_exception, heap, global,
                 terminating, crashed>>

\* the handler has returned value v, or thrown.  There is no TryCatch and
\* no test for an empty handle: after a throw response_value is empty and
\* response_value->IsString() dereferences a null pointer, so the process
\* dies or the test reads arbitrary memory.
SendSyncEpilogue(t, outcome, v) ==
  /\ UNCHANGED last_exception
  /\ IF outcome = "throw"
       THEN \/ /\ crashed' = TRUE
               /\ UNCHANGED <<stack, lockOwner, lockDepth, retval>>
            \/ /\ UNCHANGED crashed
               /\ \E out \in {ErrMarker \o "non-string return value", Garbage} :
                    \E r \in DanglingRead(out) :
                      ApiReturn(t, "sendSync", 0, r, outcome)
       ELSE /\ UNCHANGED crashed
            /\ LET out == IF v # NonString THEN v
                          ELSE ErrMarker \o "non-string return value"
               IN \E r \in DanglingRead(out) :
                    ApiReturn(t, "sendSync", 0, r, outcome)

\* the end of the guest code run by the innermost entry point of t
Epilogue(t, outcome, e, v) ==
  LET k == Top(stack[t]).kind IN
    IF k = "load" THEN LoadEpilogue(t, outcome, e)
    ELSE IF k = "send" THEN SendEpilogue(t, outcome, e)
    ELSE SendSyncEpilogue(t, outcome, v)

\* ------------------------------------------------------------ guest code
\* Guest code runs in the frame of the entry point that started it, in the
\* context of that frame; each statement it executes counts as one operation.
CanStep(t) == InGuest(t) /\ nops < MaxOps
Step(t) == nops' = nops + 1

\* the guest assigns v to its global $context, a plain data property
GuestSetContext(t, v) ==
  /\ ~crashed
  /\ CanStep(t)
  /\ global[Top(stack[t]).c] # v
  /\ global' = [global EXCEPT ![Top(stack[t]).c] = v]
  /\ Step(t)
  /\ UNCHANGED stack
  /\ UNCHANGED <<contextIndex, contexts, last_exception, heap, lockOwner,
                 lockDepth, terminating, retval, crashed>>

\* ctx->Global()->Get("$context")->Int32Value() in the current context cur
CurrentContextValue(cur) == global[cur]

\* w->contexts[value]: std::map::operator[] adds (value, NULL) when absent
MapIndex(m, k) ==
  IF k \in DOMAIN m THEN m
  ELSE [x \in DOMAIN m \cup {k} |-> IF x = k THEN NULL ELSE m[x]]

\* the context_s the intrinsic called from context cur operates on
IntrinsicContext(cur) ==
  MapIndex(contexts, CurrentContextValue(cur))[CurrentContextValue(cur)]

\* mutant: a registration is kept only while the slot is still unset
GuestRecv_FirstWins(t, h) ==
  /\ ~crashed
  /\ CanStep(t)
  /\ lockOwner = t
  /\ LET cur == Top(stack[t]).c
         c == IntrinsicContext(cur)
     IN /\ contexts' = MapIndex(contexts, CurrentContextValue(cur))
        /\ IF c = NULL
             THEN crashed' = TRUE /\ UNCHANGED heap
             ELSE IF heap[c].freed
               THEN crashed' \in BOOLEAN /\ UNCHANGED heap
               ELSE /\ heap' = IF heap[c].recv = NoFn
                                 THEN [heap EXCEPT ![c].recv = h]
                                 ELSE heap
                    /\ UNCHANGED crashed
  /\ Step(t)
  /\ UNCHANGED stack
  /\ UNCHANGED <<contextIndex, last_exception, global, lockOwner, lockDepth,
                 terminating, retval>>

\* $recv(h): c->recv.Reset(isolate, h)
GuestRecv(t, h) ==
  /\ ~crashed
  /\ CanStep(t)
  /\ lockOwner = t
  /\ LET cur == Top(stack[t]).c
         c == IntrinsicContext(cur)
     IN /\ contexts' = MapIndex(contexts, CurrentContextValue(cur))
        /\ IF c = NULL
             THEN crashed' = TRUE /\ UNCHANGED heap
             ELSE IF heap[c].freed
               THEN crashed' \in BOOLEAN /\ UNCHANGED heap
               ELSE /\ heap' = [heap EXCEPT ![c].recv = h]
                    /\ UNCHANGED crashed
  /\ Step(t)
  /\ UNCHANGED stack
  /\ UNCHANGED <<contextIndex, last_exception, global, lockOwner, lockDepth,
                 terminating, retval>>

\* $recvSync(h): c->recv_sync_handler.Reset(isolate, h)
GuestRecvSync(t, h) ==
  /\ ~crashed
  /\ CanStep(t)
  /\ lockOwner = t
  /\ LET cur == Top(stack[t]).c
         c == IntrinsicContext(cur)
     IN /\ contexts' = MapIndex(contexts, CurrentContextValue(cur))
        /\ IF c = NULL
             THEN crashed' = TRUE /\ UNCHANGED heap
             ELSE IF heap[c].freed
               THEN crashed' \in BOOLEAN /\ UNCHANGED heap
               ELSE /\ heap' = [heap EXCEPT ![c].recv_sync_handler = h]
                    /\ UNCHANGED crashed
  /\ Step(t)
  /\ UNCHANGED stack
  /\ UNCHANGED <<contextIndex, last_exception, global, lockOwner, lockDepth,
                 terminating, retval>>

\* mutant: the message is handed to another thread, which runs the host
\* callback while the intrinsic returns to the guest code at once
GuestSend_Detached(t, msg) ==
  /\ ~crashed
  /\ CanStep(t)
  /\ lockOwner = t
  /\ LET cur == Top(stack[t]).c
         c == IntrinsicContext(cur)
         entered == Frame("cb", c, "host", heap[c].cb, msg, "",
                          heap[c].data, 0)
     IN /\ contexts' = MapIndex(contexts, CurrentContextValue(cur))
        /\ IF c = NULL
             THEN crashed' = TRUE /\ UNCHANGED stack
             ELSE /\ IF heap[c].freed THEN crashed' \in BOOLEAN
                                      ELSE UNCHANGED crashed
                  /\ \E u \in Threads \ {t} :
                       stack' = [stack EXCEPT ![u] = Append(@, entered)]
  /\ Step(t)
  /\ UNCHANGED <<contextIndex, last_exception, heap, global, lockOwner,
                 lockDepth, terminating, retval>>

\* $send(msg): c->cb(msg, c->data), called after the inner Locker is gone
GuestSend(t, msg) ==
  /\ ~crashed
  /\ CanStep(t)
  /\ lockOwner = t
  /\ LET cur == Top(stack[t]).c
         c == IntrinsicContext(cur)
         entered == Frame("cb", c, "host", heap[c].cb, msg, "",
                          heap[c].data, 0)
     IN /\ contexts' = MapIndex(contexts, CurrentContextValue(cur))
        /\ IF c = NULL
             THEN crashed' = TRUE /\ UNCHANGED stack
             ELSE /\ IF heap[c].freed THEN crashed' \in BOOLEAN
                                      ELSE UNCHANGED crashed
                  /\ stack' = [stack EXCEPT ![t] =
                                 Append(@, entered)]
  /\ Step(t)
  /\ UNCHANGED <<contextIndex, last_exception, heap, global, lockOwner,
                 lockDepth, terminating, retval>>

\* $sendSync(msg): c->req_cb(msg, c->data)
GuestSendSync(t, msg) ==
  /\ ~crashed
  /\ CanStep(t)
  /\ lockOwner = t
  /\ LET cur == Top(stack[t]).c
         c == IntrinsicContext(cur)
         entered == Frame("req_cb", c, "host", heap[c].req_cb, msg, "",
                          heap[c].data, 0)
     IN /\ contexts' = MapIndex(contexts, CurrentContextValue(cur))
        /\ IF c = NULL
             THEN crashed' = TRUE /\ UNCHANGED stack
             ELSE /\ IF heap[c].freed THEN crashed' \in BOOLEAN
                                      ELSE UNCHANGED crashed
                  /\ stack' = [stack EXCEPT ![t] =
                                 Append(@, entered)]
  /\ Step(t)
  /\ UNCHANGED <<contextIndex, last_exception, heap, global, lockOwner,
                 lockDepth, terminating, retval>>

\* the host callback returns to the intrinsic that called it; SendSync
\* makes a guest string of the returned text r and hands it to the guest
\* code as the value of the call, Send has nothing to hand back
CallbackReturn(t, r) ==
  /\ ~crashed
  /\ UNCHANGED nops
  /\ stack[t] # <<>>
  /\ Top(stack[t]).kind \in CbKinds
  /\ IF Top(stack[t]).kind = "req_cb"
       THEN stack' = [stack EXCEPT ![t] =
                        [Front(@) EXCEPT ![Len(@) - 1].reply = r]]
       ELSE Pop(t)
  /\ UNCHANGED <<contextIndex, contexts, last_exception, heap, global,
                 lockOwner, lockDepth, terminating, retval, crashed>>

\* the guest code enters a loop that never ends
GuestLoop(t) ==
  /\ ~crashed
  /\ UNCHANGED nops
  /\ InGuest(t)
  /\ SetTop(t, [Top(stack[t]) EXCEPT !.pc = "loop"])
  /\ UNCHANGED <<contextIndex, contexts, last_exception, heap, global,
                 lockOwner, lockDepth, terminating, retval, crashed>>

\* the guest code runs to its end and yields v
GuestFinish(t, v) ==
  /\ ~crashed
  /\ UNCHANGED nops
  /\ InGuest(t)
  /\ Epilogue(t, "ok", TerminationException, v)
  /\ UNCHANGED <<contextIndex, contexts, heap, global, terminating>>

\* the guest code throws e and does not catch it
GuestThrow(t, e) ==
  /\ ~crashed
  /\ UNCHANGED nops
  /\ InGuest(t)
  /\ Epilogue(t, "throw", e, NonString)
  /\ UNCHANGED <<contextIndex, contexts, heap, global, terminating>>

\* the engine aborts the running guest code because of a pending
\* TerminateExecution; the request is dropped when the outermost
\* JavaScript frame of the thread has been left
GuestAbort(t) ==
  /\ ~crashed
  /\ UNCHANGED nops
  /\ terminating
  /\ stack[t] # <<>>
  /\ Top(stack[t]).kind \in ApiKinds
  /\ Top(stack[t]).pc \in {"guest", "loop"}
  /\ Epilogue(t, "throw", TerminationException, NonString)
  /\ terminating' = IF BottomCall(t) /\ ~crashed' THEN FALSE ELSE terminating
  /\ UNCHANGED <<contextIndex, contexts, heap, global>>

\* ------------------------------------------------------------------ Next
Next ==
  \E t \in Threads :
    \/ ContextNew(t)
    \/ \E p \in Ptrs : DisposeBegin(t, p)
    \/ DisposeEnd(t)
    \/ Terminate(t)
    \/ \E p \in Ptrs : \E nm \in Names : \E src \in Sources :
         LoadBegin(t, p, nm, src)
    \/ LoadCompile(t)
    \/ \E p \in Ptrs : \E msg \in Msgs : SendBegin(t, p, msg)
    \/ SendDispatch(t)
    \/ \E p \in Ptrs : \E msg \in Msgs : SendSyncBegin(t, p, msg)
    \/ SendSyncDispatch(t)
    \/ \E v \in CtxValues : GuestSetContext(t, v)
    \/ \E h \in GuestFns : GuestRecv(t, h)
    \/ \E h \in GuestFns : GuestRecvSync(t, h)
    \/ \E msg \in Msgs : GuestSend(t, msg)
    \/ \E msg \in Msgs : GuestSendSync(t, msg)
    \/ \E r \in Replies : CallbackReturn(t, r)
    \/ GuestLoop(t)
    \/ \E v \in GuestResults : GuestFinish(t, v)
    \/ \E e \in GuestExceptions : GuestThrow(t, e)
    \/ GuestAbort(t)

Spec == Init /\ [][Next]_vars

\* V8 tests for a pending termination request at every loop back-edge and
\* function entry, so running guest code cannot ignore the request forever.
SpecLive == Spec /\ \A t \in Threads : WF_vars(GuestAbort(t))

\* ================================================================ claims
\* thread t leaves its innermost frame, an entry point of kind k, in this step
Returned(t, k) ==
  /\ stack[t] # <<>>
  /\ Top(stack[t]).kind = k
  /\ stack'[t] = Front(stack[t])

\* thread t takes a step from the entry of its innermost frame, of kind k
Dispatched(t, k) ==
  /\ stack[t] # <<>>
  /\ Top(stack[t]).kind = k
  /\ Top(stack[t]).pc = "entry"
  /\ stack'[t] # stack[t]

BeginsWithErr(str) == \E tail \in ErrTails : str = ErrMarker \o tail

\* C1: a $recv / $recvSync call made by guest code running in context A
\* changes only A's handler slots: whenever a handler slot of a context b
\* changes, the guest code running at that moment runs in b.
C1_RegistrationOnlyAffectsCaller ==
  [][\A b \in Ptrs :
       (heap'[b].recv # heap[b].recv
        \/ heap'[b].recv_sync_handler # heap[b].recv_sync_handler)
       => \E t \in Threads : InGuest(t) /\ Top(stack[t]).c = b]_vars

\* C2: every thread inside an engine-touching operation holds the isolate
\* lock, and at most one thread is inside such an operation at any time.
C2_ExclusiveHold ==
  /\ \A t \in Threads : stack[t] # <<>> => lockOwner = t
  /\ \A t1, t2 \in Threads :
       (stack[t1] # <<>> /\ stack[t2] # <<>>) => t1 = t2

\* C3: the p-th context created has id p - 1, so ids are consecutive from 0
\* in creation order and pairwise different, disposed contexts included,
\* and no step changes the id of an existing context.
C3_IdsDenseUniqueStable ==
  /\ [](\A p \in Ptrs : heap[p].id = p - 1)
  /\ [](\A p, q \in Ptrs : p # q => heap[p].id # heap[q].id)
  /\ [][\A p \in Ptrs : heap'[p].id = heap[p].id]_vars

\* a context was disposed and another exists beside it, ids 0 and 1
C3_Witness ==
  /\ Len(heap) = 2
  /\ heap[1].freed
  /\ heap[1].id = 0
  /\ heap[2].id = 1

\* C4: the $context value an intrinsic reads from a context's global object
\* is always the id the context got at creation.
C4_IdentityReadOnly ==
  \A p \in Ptrs : CurrentContextValue(p) = heap[p].id

\* C5: once a context is disposed the registry has no entry for its id, its
\* guest handler references are released, and no intrinsic lookup reaches it.
C5_DisposedUnreachable ==
  \A p \in Ptrs :
    heap[p].freed =>
      /\ heap[p].id \notin DOMAIN contexts
      /\ heap[p].recv = NoFn
      /\ heap[p].recv_sync_handler = NoFn
      /\ \A cur \in Ptrs : IntrinsicContext(cur) # p

\* C6: when the guest sync handler throws or is aborted, sendSync returns
\* normally with a string that begins with the marker "err: ".
C6_SyncFailureIsSentinel ==
  [][\A t \in Threads :
       (/\ stack[t] # <<>>
        /\ Top(stack[t]).kind = "sendSync"
        /\ (\E e \in GuestExceptions : GuestThrow(t, e)) \/ GuestAbort(t))
       => /\ ~crashed'
          /\ Returned(t, "sendSync")
          /\ retval'.op = "sendSync"
          /\ BeginsWithErr(retval'.result)]_vars

\* thread t is blocked in guest code that never ends, run by entry point k,
\* while a termination request is pending
BlockedTerminating(t, k) ==
  /\ stack[t] # <<>>
  /\ Top(stack[t]).kind = k
  /\ Top(stack[t]).pc = "loop"
  /\ terminating

\* C7: a load or send call blocked in guest code that never finishes
\* returns, with status 2, once terminate has been invoked; and terminate
\* can be invoked by a thread in host code whoever holds the lock.
C7_TerminateUnblocks ==
  /\ \A t \in Threads : \A k \in {"load", "send"} :
       BlockedTerminating(t, k)
         ~> (/\ retval.op = k
             /\ retval.status = 2
             /\ ~BlockedTerminating(t, k))
  /\ [](\A t \in Threads :
         (~crashed /\ HostCode(t) /\ nops < MaxOps)
           => ENABLED Terminate(t))

\* thread 1 is blocked in a looping script, holding the lock, and terminate
\* was the last call to return
C7_Witness ==
  /\ BlockedTerminating(1, "load")
  /\ lockOwner = 1
  /\ stack[2] = <<>>
  /\ retval.op = "terminate"

\* C8: load returns 1 exactly when the source does not compile, and then no
\* guest code has run; 2 exactly when it compiles and the run ends with an
\* uncaught exception; 0 otherwise; on a non-zero return last_exception is
\* the formatted diagnostic of that failure.
C8_LoadStatus ==
  [][\A t \in Threads :
       Returned(t, "load") =>
         LET fr == Top(stack[t])
         IN /\ retval'.op = "load"
            /\ retval'.status \in {0, 1, 2}
            /\ retval'.status = 1 <=> ~Compiles(fr.arg)
            /\ retval'.status = 1 =>
                 /\ fr.pc = "entry"
                 /\ last_exception' =
                      ExceptionString(CompileError(fr.name, fr.arg))
            /\ retval'.status = 2 <=>
                 (Compiles(fr.arg) /\ retval'.ended = "throw")
            /\ \A e \in GuestExceptions :
                 GuestThrow(t, e) => last_exception' = ExceptionString(e)
            /\ GuestAbort(t) =>
                 last_exception' = ExceptionString(TerminationException)]_vars

\* a load has returned 2 and last_exception holds the diagnostic of a thrown
\* exception with position data
C8_Witness ==
  /\ retval.op = "load"
  /\ retval.status = 2
  /\ \E e \in GuestExceptions :
       e.hasMessage /\ last_exception = ExceptionString(e)

\* C9: send on a context whose async handler slot is unset returns 1 with
\* last_exception "$recv not called"; it leaves without entering guest
\* code, without a handler call and without a host callback.
C9_SendUnregistered ==
  [][\A t \in Threads :
       (Dispatched(t, "send") /\ heap[Top(stack[t]).c].recv = NoFn) =>
         /\ Returned(t, "send")
         /\ retval' = [op |-> "send", status |-> 1, result |-> "",
                       ended |-> "-"]
         /\ last_exception' = "$recv not called"
         /\ Top(stack[t]).calls = 0
         /\ heap' = heap
         /\ global' = global]_vars

\* a send has returned 1 without running a handler
C9_Witness ==
  /\ retval = [op |-> "send", status |-> 1, result |-> "", ended |-> "-"]
  /\ last_exception = "$recv not called"

\* C10: send on a context with a registered async handler calls that
\* handler once, with msg as argument; it returns 2 with the formatted
\* exception in last_exception when the handler throws, and 0 whatever the
\* handler returns otherwise.
C10_SendRegistered ==
  /\ [][\A t \in Threads :
          (Dispatched(t, "send") /\ heap[Top(stack[t]).c].recv # NoFn) =>
            /\ Len(stack'[t]) = Len(stack[t])
            /\ Top(stack'[t]) =
                 [Top(stack[t]) EXCEPT !.pc = "guest",
                                       !.fn = heap[Top(stack[t]).c].recv,
                                       !.calls = 1]]_vars
  /\ [][\A t \in Threads :
          (Returned(t, "send") /\ Top(stack[t]).pc # "entry") =>
            /\ Top(stack[t]).calls = 1
            /\ retval'.op = "send"
            /\ \A e \in GuestExceptions :
                 GuestThrow(t, e) =>
                   /\ retval'.status = 2
                   /\ last_exception' = ExceptionString(e)
            /\ GuestAbort(t) => retval'.status = 2
            /\ \A v \in GuestResults :
                 GuestFinish(t, v) => retval'.status = 0]_vars

\* a send whose handler "f" threw has returned 2
C10_Witness ==
  /\ retval = [op |-> "send", status |-> 2, result |-> "",
              ended |-> "throw"]
  /\ \E e \in GuestExceptions : last_exception = ExceptionString(e)
  /\ \E p \in Ptrs : heap[p].recv = "f"

\* C11: sendSync on a context whose sync handler slot is unset returns
\* normally, without running guest code, and the string the host receives is
\* the sentinel "err: $recvSync not called".
C11_SendSyncUnregistered ==
  [][\A t \in Threads :
       (/\ Dispatched(t, "sendSync")
        /\ heap[Top(stack[t]).c].recv_sync_handler = NoFn)
       => /\ ~crashed'
          /\ Returned(t, "sendSync")
          /\ retval'.op = "sendSync"
          /\ retval'.result = ErrMarker \o "$recvSync not called"
          /\ BeginsWithErr(retval'.result)
          /\ Top(stack[t]).calls = 0
          /\ heap' = heap]_vars

\* the string a sendSync with a registered handler has to hand to the host
\* when the handler returned v
ExpectedReply(v) ==
  IF v # NonString THEN v ELSE ErrMarker \o "non-string return value"

\* C12: sendSync on a context with a registered sync handler hands the host
\* the value this call computed: the handler's return value when it is a
\* string, and "err: non-string return value" when it is not.
C12_SendSyncReply ==
  [][\A t \in Threads : \A v \in GuestResults :
       (Returned(t, "sendSync") /\ GuestFinish(t, v))
       => /\ Top(stack[t]).calls = 1
          /\ retval'.op = "sendSync"
          /\ retval'.result = ExpectedReply(v)]_vars

\* thread t returns from entry point k with a non-zero status
Failed(t, k) ==
  /\ Returned(t, k)
  /\ retval'.op = k
  /\ retval'.status # 0

\* the diagnostic of the failure with which t leaves entry point k is text
FailureTextIs(t, k, text) ==
  IF Top(stack[t]).pc = "entry"
    THEN text = IF k = "load"
                  THEN ExceptionString(CompileError(Top(stack[t]).name,
                                                    Top(stack[t]).arg))
                  ELSE "$recv not called"
    ELSE \/ \E e \in GuestExceptions :
              GuestThrow(t, e) /\ text = ExceptionString(e)
         \/ GuestAbort(t) /\ text = ExceptionString(TerminationException)

\* C13: last_exception is the diagnostic of the most recent load or send
\* that returned a non-zero status: every such return, nested in a host
\* callback or not and whatever its context, overwrites the one slot of the
\* instance with its own diagnostic, and no other step changes the slot.
C13_LastExceptionIsLatestFailure ==
  [][/\ \A t \in Threads : \A k \in {"load", "send"} :
          Failed(t, k) => FailureTextIs(t, k, last_exception')
     /\ (\A t \in Threads : \A k \in {"load", "send"} : ~Failed(t, k))
          => last_exception' = last_exception]_vars

\* two contexts exist; while a host callback of a load on the first one is
\* running, a send has returned 1 and the slot holds its text
C13_Witness ==
  /\ Len(heap) = 2
  /\ Len(stack[1]) = 2
  /\ stack[1][1].kind = "load"
  /\ stack[1][1].c = 1
  /\ Top(stack[1]).kind \in CbKinds
  /\ retval = [op |-> "send", status |-> 1, result |-> "", ended |-> "-"]
  /\ last_exception = "$recv not called"

\* the intrinsic called by the guest code of t operates on the live context b
Targets(t, b) ==
  /\ InGuest(t)
  /\ IntrinsicContext(Top(stack[t]).c) = b
  /\ ~heap[b].freed

\* C14: each context has one async and one sync handler slot, written
\* last-write-wins and never cleared: a slot changes only by a registration
\* of its own kind, which stores the new handler in place of the old one
\* and leaves the other slot alone; a slot once set stays set; and send /
\* sendSync call the handler their slot holds at the moment of the call.
C14_LastWriteWins ==
  /\ [][\A b \in Ptrs :
          /\ heap[b].recv # NoFn => heap'[b].recv # NoFn
          /\ heap[b].recv_sync_handler # NoFn
               => heap'[b].recv_sync_handler # NoFn
          /\ heap'[b].recv # heap[b].recv
               => /\ heap'[b].recv_sync_handler = heap[b].recv_sync_handler
                  /\ \E t \in Threads : GuestRecv(t, heap'[b].recv)
          /\ heap'[b].recv_sync_handler # heap[b].recv_sync_handler
               => /\ heap'[b].recv = heap[b].recv
                  /\ \E t \in Threads :
                       GuestRecvSync(t, heap'[b].recv_sync_handler)]_vars
  /\ [][\A t \in Threads : \A b \in Ptrs : \A h \in GuestFns :
          /\ (Targets(t, b) /\ GuestRecv(t, h)) => heap'[b].recv = h
          /\ (Targets(t, b) /\ GuestRecvSync(t, h))
               => heap'[b].recv_sync_handler = h]_vars
  /\ [][\A t \in Threads :
          /\ (Dispatched(t, "send") /\ ~Returned(t, "send"))
               => Top(stack'[t]).fn = heap[Top(stack[t]).c].recv
          /\ (Dispatched(t, "sendSync") /\ ~Returned(t, "sendSync"))
               => Top(stack'[t]).fn =
                    heap[Top(stack[t]).c].recv_sync_handler]_vars

\* a send is running handler "f", the latest registration at the time of
\* the call, and that handler has meanwhile registered "g" in its place
C14_Witness ==
  \E t \in Threads :
    /\ InGuest(t)
    /\ Top(stack[t]).kind = "send"
    /\ Top(stack[t]).fn = "f"
    /\ heap[Top(stack[t]).c].recv = "g"
    /\ ~heap[Top(stack[t]).c].freed

\* the frame of host callback kind k entered for context a with message msg
CallbackFrame(k, a, msg) ==
  Frame(k, a, "host", IF k = "cb" THEN heap[a].cb ELSE heap[a].req_cb,
        msg, "", heap[a].data, 0)

\* C15: a $send / $sendSync call made by guest code running in context a
\* enters, once, the async resp. sync host callback given for a at its
\* creation, with the guest's message and a's data pointer; and the value
\* of a $sendSync call is the string its host callback returned.
C15_CallbackOfCaller ==
  /\ [][\A t \in Threads : \A msg \in Msgs :
          /\ GuestSend(t, msg)
               => /\ ~crashed'
                  /\ stack'[t] =
                       Append(stack[t],
                              CallbackFrame("cb", Top(stack[t]).c, msg))
          /\ GuestSendSync(t, msg)
               => /\ ~crashed'
                  /\ stack'[t] =
                       Append(stack[t],
                              CallbackFrame("req_cb", Top(stack[t]).c,
                                            msg))]_vars
  /\ [][\A t \in Threads : \A r \in Replies :
          (CallbackReturn(t, r) /\ Top(stack[t]).kind = "req_cb")
            => Top(stack'[t]).reply = r]_vars

\* the frames of s below its innermost one
Below(s) == IF s = <<>> THEN <<>> ELSE Front(s)

\* C16: calls nest strictly and nothing is queued: a host callback runs
\* directly on top of the entry point whose guest code called the intrinsic,
\* which waits in that call; an entry point with anything above it is
\* waiting in such a callback, and a nested entry point was called from a
\* callback; a thread's frames are entered and left one at a time,
\* innermost first, so an entry point returns only after everything it
\* started has returned.
C16_StrictNesting ==
  /\ [](\A t \in Threads : \A i \in 1..Len(stack[t]) :
          LET fr == stack[t][i] IN
            /\ fr.kind \in CbKinds
                 => /\ i > 1
                    /\ stack[t][i - 1].kind \in ApiKinds
                    /\ stack[t][i - 1].pc = "guest"
                    /\ fr.pc = "host"
            /\ (fr.kind \in ApiKinds /\ i < Len(stack[t]))
                 => /\ fr.pc = "guest"
                    /\ stack[t][i + 1].kind \in CbKinds
            /\ (fr.kind \in ApiKinds /\ i > 1)
                 => stack[t][i - 1].kind \in CbKinds)
  /\ [][\A t \in Threads :
          stack'[t] # stack[t]
            => /\ \A u \in Threads \ {t} : stack'[u] = stack[u]
               /\ \/ Below(stack'[t]) = stack[t]
                  \/ Below(stack'[t]) = Below(stack[t])
                  \/ /\ Len(stack'[t]) = Len(stack[t]) - 1
                     /\ Below(stack'[t]) = Below(Below(stack[t]))]_vars

\* a send called from the host callback of a load has in turn called the
\* host: four frames nest on the one thread
C16_Witness ==
  /\ Len(stack[1]) = 4
  /\ stack[1][1].kind = "load"
  /\ stack[1][2].kind = "cb"
  /\ stack[1][3].kind = "send"
  /\ stack[1][4].kind \in CbKinds
  /\ stack[2] = <<>>

\* the number of entry points thread t is inside
ApiDepth(t) ==
  Cardinality({i \in 1..Len(stack[t]) : stack[t][i].kind \in ApiKinds})

\* C17: calling load, send or sendSync again from a host callback, on the
\* thread that is inside the outer call, does not block: the thread holding
\* the lock can always enter the inner call; the lock is held once per
\* entry point its owner is inside; each return gives up one hold, and the
\* return of the outermost call leaves the lock free.
C17_ReentrantNesting ==
  /\ [](\A t \in Threads : \A p \in Ptrs : \A msg \in Msgs :
          (/\ ~crashed
           /\ nops < MaxOps
           /\ Usable(p)
           /\ stack[t] # <<>>
           /\ HostCode(t)
           /\ lockOwner = t)
          => /\ ENABLED SendBegin(t, p, msg)
             /\ ENABLED SendSyncBegin(t, p, msg)
             /\ \A nm \in Names : \A src \in Sources :
                  ENABLED LoadBegin(t, p, nm, src))
  /\ [](\A t \in Threads :
          /\ lockOwner = t <=> ApiDepth(t) > 0
          /\ lockOwner = t => lockDepth = ApiDepth(t))
  /\ [](lockOwner = NoThread <=> lockDepth = 0)
  /\ [][\A t \in Threads : \A k \in ApiKinds :
          Returned(t, k)
            => /\ lockDepth' = lockDepth - 1
               /\ lockOwner' = IF BottomCall(t) THEN NoThread ELSE t]_vars

\* inside the host callback of a load, thread 1 has entered sendSync on the
\* same instance and holds the lock twice
C17_Witness ==
  /\ Len(stack[1]) = 3
  /\ stack[1][1].kind = "load"
  /\ stack[1][2].kind \in CbKinds
  /\ stack[1][3].kind = "sendSync"
  /\ stack[1][3].pc = "guest"
  /\ lockOwner = 1
  /\ lockDepth = 2

\* C18: the set of ids in the registry changes only in createContext and
\* disposeContext, never in an intrinsic call, whatever $context value the
\* calling scope holds; and every entry maps its key k to a context object
\* whose id is k.
C18_RegistryFrame ==
  /\ [][DOMAIN contexts' # DOMAIN contexts
          => \E t \in Threads :
               \/ ContextNew(t)
               \/ \E p \in Ptrs : DisposeBegin(t, p)
               \/ DisposeEnd(t)]_vars
  /\ [](\A k \in DOMAIN contexts :
          /\ contexts[k] # NULL
          /\ heap[contexts[k]].id = k)

\* C19: a call that does not report a non-zero status leaves last_exception
\* as it found it: the return of a load or send with status 0 does not
\* change it, and no step of sendSync changes it, whether the handler is
\* unset, returns a string or returns something else.
C19_SlotUnchangedWithoutFailure ==
  [][\A t \in Threads :
       /\ \A k \in {"load", "send"} :
            (Returned(t, k) /\ retval'.op = k /\ retval'.status = 0)
              => last_exception' = last_exception
       /\ (stack[t] # <<>> /\ Top(stack[t]).kind = "sendSync")
            => last_exception' = last_exception]_vars

\* a sendSync without a sync handler has returned its sentinel, and the slot
\* still holds what an earlier failing send wrote
C19_Witness ==
  /\ retval.op = "sendSync"
  /\ retval.result = ErrMarker \o "$recvSync not called"
  /\ last_exception = "$recv not called"

====
